---- MODULE Spec2Model ----
(***************************************************************************)
(* A model of script.js, the Google Drive link converter page: the theme   *)
(* toggle, the status message with its two chained dismissal timers, the   *)
(* copy button, the generate button and the delayed link generation.       *)
(*                                                                         *)
(* A JavaScript string is a sequence of one-character strings, so that     *)
(* trim(), the regular expression and the template literal are computed    *)
(* character by character.                                                 *)
(*                                                                         *)
(* The pending setTimeout timers are kept in one sequence, in the order in *)
(* which they will fire.  A timer set now with delay d is due after every  *)
(* pending timer whose delay is at most d (that one was set no later and   *)
(* is due no later; equal due times fire in the order of setting); its     *)
(* place among the pending timers of a longer delay depends on how long    *)
(* ago those were set, which is the user's timing, and is left open.       *)
(*                                                                         *)
(* Every handler and every timer callback runs to completion (one action   *)
(* each): the only suspension point of the script is the await of          *)
(* generateLink, which splits it into GenerateClick and GenComplete.       *)
(* Focus and text selection (focus(), select(), removeAllRanges()) are     *)
(* presentation only and are not part of the state.  The user reaches the  *)
(* handlers once the document has loaded; nothing in the script stops a    *)
(* handler from running while a generation is suspended.                   *)
(***************************************************************************)
EXTENDS Integers, Sequences, FiniteSets, TLC

----------------------------------------------------------------------------
(* Bounds of the model *)

\* the most generations that may be suspended in their delay at once
MaxGens == 2

\* the most segments concatenated into an input of ExtractSpec
MaxSegs == 3

----------------------------------------------------------------------------
(* Literals of the script *)

MsgEnterLink == "Please enter a Google Drive link."

MsgGenerated == "Direct download link generated successfully!"

MsgInvalid == "Invalid Google Drive link format. Please ensure it's a valid file link."

MsgNoLink == "No link to copy!"

MsgCopied == "Link copied to clipboard!"

MsgCopyFailed == "Failed to copy link. Please copy manually."

\* the delay of the outer setTimeout of displayStatusMessage
StatusDisplayMs == 5000

\* the delay of the inner setTimeout of displayStatusMessage
TransitionMs == 400

\* the delay generateLink awaits
GenerationDelayMs == 1200

DirectLinkPrefix ==
    << "h", "t", "t", "p", "s", ":", "/", "/", "d", "r", "i", "v", "e", ".", "g", "o",
       "o", "g", "l", "e", ".", "c", "o", "m", "/", "u", "c", "?", "e", "x", "p", "o",
       "r", "t", "=", "d", "o", "w", "n", "l", "o", "a", "d", "&", "i", "d", "=" >>

\* the literal pieces of the regular expression of generateLink
ReHttp ==
    << "h", "t", "t", "p" >>

ReS ==
    << "s" >>

ReSchemeSep ==
    << ":", "/", "/" >>

ReDriveHost ==
    << "d", "r", "i", "v", "e", ".", "g", "o", "o", "g", "l", "e", ".", "c", "o", "m",
       "/" >>

ReFilePath ==
    << "f", "i", "l", "e", "/", "d", "/" >>

ReOpenPath ==
    << "o", "p", "e", "n", "?", "i", "d", "=" >>

ReDocsPath ==
    << "d", "o", "c", "s", ".", "g", "o", "o", "g", "l", "e", ".", "c", "o", "m", "/",
       "d", "o", "c", "u", "m", "e", "n", "t", "/", "d", "/" >>

\* the character class [a-zA-Z0-9_-]
IdChars ==
    { "a", "b", "c", "d", "e", "f", "g", "h", "i", "j", "k", "l", "m", "n", "o", "p",
    "q", "r", "s", "t", "u", "v", "w", "x", "y", "z", "A", "B", "C", "D", "E", "F",
    "G", "H", "I", "J", "K", "L", "M", "N", "O", "P", "Q", "R", "S", "T", "U", "V",
    "W", "X", "Y", "Z", "0", "1", "2", "3", "4", "5", "6", "7", "8", "9", "_", "-" }

SegFile ==
    << "h", "t", "t", "p", "s", ":", "/", "/", "d", "r", "i", "v", "e", ".", "g", "o",
       "o", "g", "l", "e", ".", "c", "o", "m", "/", "f", "i", "l", "e", "/", "d", "/" >>

SegOpen ==
    << "h", "t", "t", "p", ":", "/", "/", "d", "r", "i", "v", "e", ".", "g", "o", "o",
       "g", "l", "e", ".", "c", "o", "m", "/", "o", "p", "e", "n", "?", "i", "d", "=" >>

SegDocs ==
    << "h", "t", "t", "p", "s", ":", "/", "/", "d", "o", "c", "s", ".", "g", "o", "o",
       "g", "l", "e", ".", "c", "o", "m", "/", "d", "o", "c", "u", "m", "e", "n", "t",
       "/", "d", "/" >>

SegWrongPath ==
    << "h", "t", "t", "p", "s", ":", "/", "/", "d", "o", "c", "s", ".", "g", "o", "o",
       "g", "l", "e", ".", "c", "o", "m", "/", "f", "i", "l", "e", "/", "d", "/" >>

SegId1 ==
    << "1", "A", "2", "b", "_", "3", "C", "-", "x", "y", "z" >>

SegId2 ==
    << "X", "y", "Z", "7", "8", "9", "_", "-" >>

SegView ==
    << "/", "v", "i", "e", "w", "?", "u", "s", "p", "=", "s", "h", "a", "r", "i", "n",
       "g" >>

SegSpace ==
    << " " >>

ExampleLink ==
    << "h", "t", "t", "p", "s", ":", "/", "/", "e", "x", "a", "m", "p", "l", "e", ".",
       "c", "o", "m", "/", "n", "o", "t", "-", "a", "-", "d", "r", "i", "v", "e", "-",
       "l", "i", "n", "k" >>

----------------------------------------------------------------------------
(* String functions *)

\* the characters String.prototype.trim removes that a text field can hold
WhiteSpace == { " ", "\t" }

\* the first position at or after i that holds no white space
RECURSIVE SkipForward(_, _)
SkipForward(s, i) ==
    IF i <= Len(s) /\ s[i] \in WhiteSpace THEN SkipForward(s, i + 1) ELSE i

\* the last position at or before j that holds no white space
RECURSIVE SkipBackward(_, _)
SkipBackward(s, j) ==
    IF j >= 1 /\ s[j] \in WhiteSpace THEN SkipBackward(s, j - 1) ELSE j

\* a script that reads the field without trim()
TrimOmitted(s) == s

\* s.trim()
Trim(s) == SubSeq(s, SkipForward(s, 1), SkipBackward(s, Len(s)))

\* whether the literal lit stands in s at position i
HasAt(s, i, lit) ==
    /\ i + Len(lit) - 1 <= Len(s)
    /\ SubSeq(s, i, i + Len(lit) - 1) = lit

\* the result of a failed match (null)
NoMatch == [matched |-> FALSE]

\* ([a-zA-Z0-9_-]+) at position p: the length of the greedy run
RECURSIVE RunLength(_, _)
RunLength(s, p) ==
    IF p <= Len(s) /\ s[p] \in IdChars THEN 1 + RunLength(s, p + 1) ELSE 0

\* a lazy group, ([a-zA-Z0-9_-]+?): one character
CaptureLazy(s, p) ==
    IF RunLength(s, p) = 0 THEN NoMatch
    ELSE [matched |-> TRUE, group1 |-> SubSeq(s, p, p)]

\* a group of any characters, (.+): the rest of the input
CaptureAnything(s, p) ==
    IF p > Len(s) THEN NoMatch
    ELSE [matched |-> TRUE, group1 |-> SubSeq(s, p, Len(s))]

\* the capture group at position p, which ends the pattern
Capture(s, p) ==
    LET n == RunLength(s, p)
    IN  IF n = 0 THEN NoMatch
        ELSE [matched |-> TRUE, group1 |-> SubSeq(s, p, p + n - 1)]

\* (?:drive\.google\.com\/(?:file\/d\/|open\?id=)|docs\.google\.com\/document\/d\/)
\* at position k, followed by the capture group; alternatives in order
HostAndPath(s, k) ==
    LET file  == IF HasAt(s, k + Len(ReDriveHost), ReFilePath)
                 THEN Capture(s, k + Len(ReDriveHost) + Len(ReFilePath))
                 ELSE NoMatch
        open  == IF HasAt(s, k + Len(ReDriveHost), ReOpenPath)
                 THEN Capture(s, k + Len(ReDriveHost) + Len(ReOpenPath))
                 ELSE NoMatch
        drive == IF ~HasAt(s, k, ReDriveHost) THEN NoMatch
                 ELSE IF file.matched THEN file ELSE open
        docs  == IF HasAt(s, k, ReDocsPath)
                 THEN Capture(s, k + Len(ReDocsPath))
                 ELSE NoMatch
    IN  IF drive.matched THEN drive ELSE docs

\* :\/\/ at position j, then the host and path
AfterScheme(s, j) ==
    IF HasAt(s, j, ReSchemeSep) THEN HostAndPath(s, j + Len(ReSchemeSep))
    ELSE NoMatch

\* the whole pattern at position i: https? tries the s first, then without it
MatchAt(s, i) ==
    IF ~HasAt(s, i, ReHttp) THEN NoMatch
    ELSE LET withS == IF HasAt(s, i + Len(ReHttp), ReS)
                      THEN AfterScheme(s, i + Len(ReHttp) + Len(ReS))
                      ELSE NoMatch
         IN  IF withS.matched THEN withS ELSE AfterScheme(s, i + Len(ReHttp))

\* input.match(/.../): the match at the leftmost position that has one
RECURSIVE MatchFrom(_, _)
MatchFrom(s, i) ==
    IF i > Len(s) THEN NoMatch
    ELSE LET m == MatchAt(s, i)
         IN  IF m.matched THEN m ELSE MatchFrom(s, i + 1)

StringMatch(s) == MatchFrom(s, 1)

\* `https://drive.google.com/uc?export=download&id=${fileId}`
DirectLink(fileId) == DirectLinkPrefix \o fileId

----------------------------------------------------------------------------
(* Texts the user may put into the input field *)

\* the segments the inputs of ExtractSpec are concatenated from
Segments ==
    { SegFile, SegOpen, SegDocs, SegWrongPath, SegId1, SegView, SegSpace }

RECURSIVE Flatten(_)
Flatten(q) == IF q = << >> THEN << >> ELSE Head(q) \o Flatten(Tail(q))

SegmentTexts ==
    { Flatten(q) : q \in UNION { [1..n -> Segments] : n \in 0..MaxSegs } }

\* the texts the user types in Spec: nothing, blanks, two share links, a
\* foreign link
FieldTexts ==
    { << >>,
      SegSpace \o SegSpace,
      SegFile \o SegId1 \o SegView,
      SegSpace \o SegOpen \o SegId2 \o SegSpace,
      ExampleLink }

----------------------------------------------------------------------------
(* The state of the page *)

VARIABLES
    loaded,         \* DOMContentLoaded has been handled
    driveLink,      \* driveLinkInput.value
    outputLink,     \* outputLinkInput.value
    statusText,     \* statusMessage.textContent
    statusType,     \* statusMessage's data-type attribute, or NoType
    statusShow,     \* statusMessage.classList contains "show"
    statusDisplay,  \* statusMessage.style.display
    timers,         \* the pending setTimeout timers, in the order they fire
    loading,        \* generateButton.classList contains "loading"
    copyEnabled,    \* copyButton.style.pointerEvents is "auto"
    darkTheme,      \* document.body.classList contains "dark-theme"
    themeChecked,   \* themeToggle.checked
    storedTheme,    \* localStorage.getItem("theme")
    clipboard       \* the text on the system clipboard

themeVars == << darkTheme, themeChecked, storedTheme >>

statusVars == << statusText, statusType, statusShow, statusDisplay >>

vars ==
    << loaded, driveLink, outputLink, statusText, statusType, statusShow,
       statusDisplay, timers, loading, copyEnabled, darkTheme, themeChecked,
       storedTheme, clipboard >>

\* the data-type attribute is absent
NoType == "none"

\* localStorage holds no "theme" item
Absent == "absent"

\* the clipboard holds a text that is none of this page's links
Foreign == << "?" >>

\* the ways document.execCommand("copy") can end: it returns true, it returns
\* false (the command is unsupported or disabled), or it throws
CopyOutcomes == { "true", "false", "throws" }

\* what localStorage may hold for "theme" when the page loads
StoredThemes == { Absent, "dark", "light", "other" }

\* the page before DOMContentLoaded: the input field holds one of texts, the
\* copy button, the body class and the checkbox are as the markup and the
\* browser left them (one of flags), localStorage holds one of stored
InitWith(texts, flags, stored) ==
    /\ loaded = FALSE
    /\ driveLink \in texts
    /\ outputLink = << >>
    /\ statusText = ""
    /\ statusType = NoType
    /\ statusShow = FALSE
    /\ statusDisplay = ""
    /\ timers = << >>
    /\ loading = FALSE
    /\ copyEnabled \in flags
    /\ darkTheme \in flags
    /\ themeChecked \in flags
    /\ storedTheme \in stored
    /\ clipboard = Foreign

Init == InitWith({ << >> }, BOOLEAN, StoredThemes)

----------------------------------------------------------------------------
(* Timers *)

\* the timer of displayStatusMessage's outer setTimeout, the one
\* statusMessageTimeoutId names while it is pending
DismissTimer == [kind |-> "dismiss", id |-> 0, input |-> << >>]

\* the timer of displayStatusMessage's inner setTimeout
ClearTimer == [kind |-> "clear", id |-> 0, input |-> << >>]

\* the timer generateLink awaits; input is the closure's trimmed input
GenTimer(k, text) == [kind |-> "gen", id |-> k, input |-> text]

Delay(timer) ==
    CASE timer.kind = "dismiss" -> StatusDisplayMs
      [] timer.kind = "clear"   -> TransitionMs
      [] timer.kind = "gen"     -> GenerationDelayMs

\* the places in the firing order a timer set now may take
Places(agenda, timer) ==
    { p \in 1..(Len(agenda) + 1) :
        \A i \in p..Len(agenda) : Delay(agenda[i]) > Delay(timer) }

\* setTimeout: the agenda with the timer at place p
SetTimeout(agenda, timer, p) ==
    SubSeq(agenda, 1, p - 1) \o << timer >> \o SubSeq(agenda, p, Len(agenda))

\* clearTimeout(statusMessageTimeoutId): a fired or cleared timer is no longer
\* in the agenda, and clearing it does nothing
ClearTimeout(agenda) == SelectSeq(agenda, LAMBDA t : t.kind # "dismiss")

\* the generations suspended at the await, oldest first
Gens == SelectSeq(timers, LAMBDA t : t.kind = "gen")

----------------------------------------------------------------------------
(* Theme *)

\* applySavedTheme with the test on the other marker: anything but "light"
\* is dark
applySavedThemeDefaultDark ==
    IF storedTheme = "light"
    THEN darkTheme' = FALSE /\ themeChecked' = FALSE
    ELSE darkTheme' = TRUE /\ themeChecked' = TRUE

applySavedTheme ==
    LET savedTheme == storedTheme
    IN  IF savedTheme = "dark"
        THEN darkTheme' = TRUE /\ themeChecked' = TRUE
        ELSE darkTheme' = FALSE /\ themeChecked' = FALSE

\* a change listener that also empties the output field
ThemeToggleResets ==
    /\ loaded
    /\ themeChecked' = ~themeChecked
    /\ IF themeChecked'
       THEN darkTheme' = TRUE /\ storedTheme' = "dark"
       ELSE darkTheme' = FALSE /\ storedTheme' = "light"
    /\ outputLink' = << >>
    /\ UNCHANGED << loaded, driveLink, statusVars, timers, loading,
                    copyEnabled, clipboard >>

\* the change listener of themeToggle; the click has flipped the checkbox
ThemeToggle ==
    /\ loaded
    /\ themeChecked' = ~themeChecked
    /\ IF themeChecked'
       THEN darkTheme' = TRUE /\ storedTheme' = "dark"
       ELSE darkTheme' = FALSE /\ storedTheme' = "light"
    /\ UNCHANGED << loaded, driveLink, outputLink, statusVars, timers,
                    loading, copyEnabled, clipboard >>

----------------------------------------------------------------------------
(* Status message *)

\* displayStatusMessage, called with the timers in agenda pending
displayStatusMessage(message, type, agenda) ==
    /\ statusText' = message
    /\ statusType' = type
    /\ statusShow' = TRUE
    /\ statusDisplay' = "block"
    /\ \E p \in Places(ClearTimeout(agenda), DismissTimer) :
          timers' = SetTimeout(ClearTimeout(agenda), DismissTimer, p)

\* the callback of the outer setTimeout
DismissFire ==
    /\ timers # << >>
    /\ Head(timers).kind = "dismiss"
    /\ statusShow' = FALSE
    /\ \E p \in Places(Tail(timers), ClearTimer) :
          timers' = SetTimeout(Tail(timers), ClearTimer, p)
    /\ UNCHANGED << loaded, driveLink, outputLink, statusText, statusType,
                    statusDisplay, loading, copyEnabled, themeVars,
                    clipboard >>

\* the inner callback without the reset of the text
ClearFireKeepsText ==
    /\ timers # << >>
    /\ Head(timers).kind = "clear"
    /\ statusDisplay' = "none"
    /\ statusType' = NoType
    /\ timers' = Tail(timers)
    /\ UNCHANGED << loaded, driveLink, outputLink, statusText, statusShow,
                    loading, copyEnabled, themeVars, clipboard >>

\* the callback of the inner setTimeout
ClearFire ==
    /\ timers # << >>
    /\ Head(timers).kind = "clear"
    /\ statusText' = ""
    /\ statusDisplay' = "none"
    /\ statusType' = NoType
    /\ timers' = Tail(timers)
    /\ UNCHANGED << loaded, driveLink, outputLink, statusShow, loading,
                    copyEnabled, themeVars, clipboard >>

----------------------------------------------------------------------------
(* Copy button and generate button *)

\* toggleCopyButtonState with the test the wrong way round
CopyButtonInverted(value) == value = << >>

\* toggleCopyButtonState: !isDisabled for the output value it reads
CopyButtonEnabled(value) == value # << >>

startButtonLoading == loading' = TRUE

\* a completion that leaves the class in place
stopButtonLoadingOmitted == loading' = loading

stopButtonLoading == loading' = FALSE

----------------------------------------------------------------------------
(* Page load *)

PageLoad ==
    /\ ~loaded
    /\ loaded' = TRUE
    /\ copyEnabled' = CopyButtonEnabled(outputLink)
    /\ applySavedTheme
    /\ UNCHANGED << driveLink, outputLink, statusVars, timers, loading,
                    storedTheme, clipboard >>

\* the user edits the input field into one of texts
SetInputFrom(texts) ==
    /\ loaded
    /\ \E text \in texts :
          /\ text # driveLink
          /\ driveLink' = text
    /\ UNCHANGED << loaded, outputLink, statusVars, timers, loading,
                    copyEnabled, themeVars, clipboard >>

SetInput == SetInputFrom(FieldTexts)

----------------------------------------------------------------------------
(* Link generation *)

\* the identifier of a new suspended generation: the least one not in use
FreeId ==
    CHOOSE k \in 1..(Len(Gens) + 1) :
        /\ \A i \in 1..Len(Gens) : Gens[i].id # k
        /\ \A j \in 1..(k - 1) : \E i \in 1..Len(Gens) : Gens[i].id = j

\* generateLink up to the await
GenerateClick ==
    /\ loaded
    /\ LET input == Trim(driveLink)
       IN  /\ outputLink' = << >>
           /\ copyEnabled' = CopyButtonEnabled(outputLink')
           /\ IF input = << >>
              THEN /\ displayStatusMessage(MsgEnterLink, "error", timers)
                   /\ UNCHANGED loading
              ELSE /\ Len(Gens) < MaxGens
                   /\ statusShow' = FALSE
                   /\ statusText' = ""
                   /\ statusDisplay' = "none"
                   /\ statusType' = NoType
                   /\ startButtonLoading
                   /\ \E p \in Places(timers, GenTimer(FreeId, input)) :
                         timers' = SetTimeout(timers, GenTimer(FreeId, input), p)
    /\ UNCHANGED << loaded, driveLink, themeVars, clipboard >>

\* a continuation that reads the input field again after the await
GenCompleteReadsField ==
    /\ timers # << >>
    /\ Head(timers).kind = "gen"
    /\ LET input == Trim(driveLink)
           match == StringMatch(input)
       IN  IF match.matched /\ match.group1 # << >>
           THEN /\ outputLink' = DirectLink(match.group1)
                /\ displayStatusMessage(MsgGenerated, "success", Tail(timers))
           ELSE /\ displayStatusMessage(MsgInvalid, "error", Tail(timers))
                /\ UNCHANGED outputLink
    /\ stopButtonLoading
    /\ copyEnabled' = CopyButtonEnabled(outputLink')
    /\ UNCHANGED << loaded, driveLink, themeVars, clipboard >>

\* generateLink after the await
GenComplete ==
    /\ timers # << >>
    /\ Head(timers).kind = "gen"
    /\ LET input == Head(timers).input
           match == StringMatch(input)
       IN  IF match.matched /\ match.group1 # << >>
           THEN /\ outputLink' = DirectLink(match.group1)
                /\ displayStatusMessage(MsgGenerated, "success", Tail(timers))
           ELSE /\ displayStatusMessage(MsgInvalid, "error", Tail(timers))
                /\ UNCHANGED outputLink
    /\ stopButtonLoading
    /\ copyEnabled' = CopyButtonEnabled(outputLink')
    /\ UNCHANGED << loaded, driveLink, themeVars, clipboard >>

----------------------------------------------------------------------------
(* Copy to clipboard *)

\* copyToClipboard without its check of an empty output
CopyWithoutGuard(outcome) ==
    /\ loaded
    /\ clipboard' = IF outcome = "true" THEN outputLink ELSE clipboard
    /\ IF outcome = "throws"
       THEN displayStatusMessage(MsgCopyFailed, "error", timers)
       ELSE displayStatusMessage(MsgCopied, "success", timers)
    /\ UNCHANGED << loaded, driveLink, outputLink, loading, copyEnabled,
                    themeVars >>

\* copyToClipboard announcing a copy also when the output is empty
CopyAlwaysAnnounced(outcome) ==
    /\ loaded
    /\ clipboard' = IF outcome = "true" /\ outputLink # << >>
                    THEN outputLink ELSE clipboard
    /\ IF outcome = "throws"
       THEN displayStatusMessage(MsgCopyFailed, "error", timers)
       ELSE displayStatusMessage(MsgCopied, "success", timers)
    /\ UNCHANGED << loaded, driveLink, outputLink, loading, copyEnabled,
                    themeVars >>

\* copyToClipboard when document.execCommand("copy") ends with outcome
CopyWith(outcome) ==
    /\ loaded
    /\ IF outputLink = << >>
       THEN /\ displayStatusMessage(MsgNoLink, "info", timers)
            /\ UNCHANGED clipboard
       ELSE /\ clipboard' = IF outcome = "true" THEN outputLink ELSE clipboard
            /\ IF outcome = "throws"
               THEN displayStatusMessage(MsgCopyFailed, "error", timers)
               ELSE displayStatusMessage(MsgCopied, "success", timers)
    /\ UNCHANGED << loaded, driveLink, outputLink, loading, copyEnabled,
                    themeVars >>

copyToClipboard == \E outcome \in CopyOutcomes : CopyWith(outcome)

----------------------------------------------------------------------------
(* Specifications *)

Next ==
    \/ PageLoad
    \/ SetInput
    \/ ThemeToggle
    \/ GenerateClick
    \/ GenComplete
    \/ copyToClipboard
    \/ DismissFire
    \/ ClearFire

Spec == Init /\ [][Next]_vars

\* the timers the browser runs when they are due
Fairness ==
    /\ WF_vars(GenComplete)
    /\ WF_vars(DismissFire)
    /\ WF_vars(ClearFire)

\* the generate button alone, under fair timers: the page loads with the
\* light theme, the user types a share link or a foreign link and clicks
\* generate
LiveInit == InitWith({ << >> }, { FALSE }, { Absent })

LiveSetInput == SetInputFrom({ SegFile \o SegId1 \o SegView, ExampleLink })

LiveNext ==
    \/ PageLoad
    \/ LiveSetInput
    \/ GenerateClick
    \/ GenComplete
    \/ DismissFire
    \/ ClearFire

LiveSpec == LiveInit /\ [][LiveNext]_vars /\ Fairness

\* the generate and the copy button, under fair timers
StatusLiveNext ==
    \/ LiveNext
    \/ copyToClipboard

StatusLiveSpec == LiveInit /\ [][StatusLiveNext]_vars /\ Fairness

\* the user reloads the page: the document, its timers and the script's
\* variables start afresh, localStorage and the clipboard stay
Reload ==
    /\ loaded
    /\ loaded' = FALSE
    /\ driveLink' = << >>
    /\ outputLink' = << >>
    /\ statusText' = ""
    /\ statusType' = NoType
    /\ statusShow' = FALSE
    /\ statusDisplay' = ""
    /\ timers' = << >>
    /\ loading' = FALSE
    /\ copyEnabled' \in BOOLEAN
    /\ darkTheme' \in BOOLEAN
    /\ themeChecked' \in BOOLEAN
    /\ UNCHANGED << storedTheme, clipboard >>

\* the page over several visits: the first finds localStorage without a
\* usable theme, later ones find what the toggle stored
ReloadInit == InitWith({ << >> }, BOOLEAN, { Absent, "other" })

ReloadNext ==
    \/ PageLoad
    \/ Reload
    \/ ThemeToggle
    \/ LiveSetInput
    \/ GenerateClick
    \/ GenComplete
    \/ copyToClipboard
    \/ DismissFire
    \/ ClearFire

ReloadSpec == ReloadInit /\ [][ReloadNext]_vars

\* the generation of a link from each of the segment texts: the page loads
\* with the text in the input field and the user clicks generate
ExtractInit == InitWith(SegmentTexts, { FALSE }, { Absent })

ExtractNext ==
    \/ PageLoad
    \/ GenerateClick
    \/ GenComplete

ExtractSpec == ExtractInit /\ [][ExtractNext]_vars

----------------------------------------------------------------------------
(* Notions the claims are stated in *)

\* the recognized prefixes: http:// or https://, then one of the three shapes
RecognizedPrefixes ==
    { scheme \o shape :
        scheme \in { ReHttp \o ReSchemeSep, ReHttp \o ReS \o ReSchemeSep },
        shape \in { ReDriveHost \o ReFilePath, ReDriveHost \o ReOpenPath,
                    ReDocsPath } }

\* the text holds a recognized prefix somewhere
HasPrefix(text) ==
    \E i \in 1..Len(text) : \E pre \in RecognizedPrefixes : HasAt(text, i, pre)

\* the positions right after a recognized prefix that starts at i, where an
\* identifier character stands
IdStartsAfter(text, i) ==
    { i + Len(pre) :
        pre \in { q \in RecognizedPrefixes :
                     /\ HasAt(text, i, q)
                     /\ i + Len(q) <= Len(text)
                     /\ text[i + Len(q)] \in IdChars } }

\* the starts of the recognized prefixes an identifier character follows
PrefixStarts(text) == { i \in 1..Len(text) : IdStartsAfter(text, i) # {} }

\* the maximal run of identifier characters that starts at p: it ends before
\* the first position from p on that holds another character, or at the end
MaximalRun(text, p) ==
    LET stops == { q \in p..(Len(text) + 1) :
                     q = Len(text) + 1 \/ text[q] \notin IdChars }
        stop  == CHOOSE q \in stops : \A r \in stops : q <= r
    IN  SubSeq(text, p, stop - 1)

\* the identifier after the first recognized prefix that has one
FirstId(text) ==
    LET starts == PrefixStarts(text)
        first  == CHOOSE i \in starts : \A j \in starts : i <= j
        p      == CHOOSE q \in IdStartsAfter(text, first) : TRUE
    IN  MaximalRun(text, p)

\* the text is empty or white space only
Blank(text) == \A i \in 1..Len(text) : text[i] \in WhiteSpace

\* this step resumes the oldest suspended generation
Completes ==
    /\ timers # << >>
    /\ Head(timers).kind = "gen"
    /\ Len(Gens') < Len(Gens)

\* a status dismissal timer is pending: the 5000 ms one, the 400 ms one
DismissalTimers ==
    { i \in 1..Len(timers) : timers[i].kind \in { "dismiss", "clear" } }

DismissPending == \E i \in 1..Len(timers) : timers[i].kind = "dismiss"

\* the generation with identifier k is suspended in its delay
InFlight(k) == \E i \in 1..Len(Gens) : Gens[i].id = k

----------------------------------------------------------------------------
(* The claims *)

\* C1: when a generation completes whose trimmed input holds a recognized
\* prefix followed by an identifier character, the output is the download
\* prefix followed by the maximal identifier run after the first such prefix,
\* and the status is the success message.
C1_OutputIsTemplateOfFirstId ==
    [][ (Completes /\ PrefixStarts(Head(timers).input) # {})
          => /\ outputLink' = DirectLinkPrefix \o FirstId(Head(timers).input)
             /\ statusText' = MsgGenerated
             /\ statusType' = "success" ]_vars

\* C1 witness: a link was generated from a text whose identifier is followed
\* by more text, and the output ends with the identifier.
C1_Witness ==
    /\ driveLink = SegFile \o SegId1 \o SegView
    /\ outputLink = DirectLinkPrefix \o SegId1
    /\ statusText = MsgGenerated

\* C2: whenever a generation completes whose trimmed input holds no recognized
\* prefix, the status is the invalid-format error and the output is empty.
C2_NoPrefixLeavesOutputEmpty ==
    [][ (Completes /\ ~HasPrefix(Head(timers).input))
          => /\ statusText' = MsgInvalid
             /\ statusType' = "error"
             /\ outputLink' = << >> ]_vars

\* C3: a generate click on a blank input leaves the output empty, shows the
\* enter-a-link error, does not touch the loading class and suspends no
\* generation.
C3_BlankInputNeverLoads ==
    [][ (GenerateClick /\ Blank(driveLink))
          => /\ outputLink' = << >>
             /\ statusText' = MsgEnterLink
             /\ statusType' = "error"
             /\ loading' = loading
             /\ Gens' = Gens ]_vars

\* C3 witness: the enter-a-link error is shown for a field of blanks, with
\* nothing suspended and the button not loading.
C3_Witness ==
    /\ driveLink = SegSpace \o SegSpace
    /\ statusText = MsgEnterLink
    /\ statusType = "error"
    /\ outputLink = << >>
    /\ Gens = << >>
    /\ ~loading

\* C4: at most one status dismissal timer is pending, counting the 5000 ms
\* timer and the 400 ms timer it chains to.
C4_AtMostOneDismissalTimer == Cardinality(DismissalTimers) <= 1

\* C5: a shown message keeps its text and severity until a later
\* displayStatusMessage call, the start of a generation, or the 400 ms timer
\* of its own dismiss sequence; no timer of an earlier call clears it.
C5_OnlyOwnTimerClearsMessage ==
    [][ (statusText # "" /\ (statusText' # statusText \/ statusType' # statusType))
          => \/ GenerateClick
             \/ GenComplete
             \/ copyToClipboard
             \/ (ClearFire /\ ~DismissPending) ]_vars

\* what a generation writes when it runs on its own from the text
AloneOutput(text) ==
    IF StringMatch(text).matched THEN DirectLink(StringMatch(text).group1)
    ELSE << >>

AloneStatus(text) ==
    IF StringMatch(text).matched THEN MsgGenerated ELSE MsgInvalid

\* C6: when the last of several overlapping generations completes (its
\* identifier shows that another was suspended when it started), the output
\* and the status are those it would have produced on its own.
C6_LaterCompletionWins ==
    [][ (Completes /\ Head(timers).id > 1 /\ Gens' = << >>)
          => /\ outputLink' = AloneOutput(Head(timers).input)
             /\ statusText' = AloneStatus(Head(timers).input) ]_vars

\* C7: after page load the copy button is enabled exactly when the output
\* value is not empty.
C7_CopyEnabledIffOutput == loaded => (copyEnabled <=> outputLink # << >>)

\* C7 witness: a link has been generated and the copy button is enabled.
C7_Witness == loaded /\ copyEnabled /\ outputLink # << >> /\ Gens = << >>

\* C8: the output value is empty, or the download prefix followed by a
\* non-empty run of identifier characters.
C8_OutputWellFormed ==
    \/ outputLink = << >>
    \/ /\ Len(outputLink) > Len(DirectLinkPrefix)
       /\ SubSeq(outputLink, 1, Len(DirectLinkPrefix)) = DirectLinkPrefix
       /\ \A i \in (Len(DirectLinkPrefix) + 1)..Len(outputLink) :
             outputLink[i] \in IdChars

\* C8 witness: the link of the second share link, whose text goes on after
\* the identifier, is in the output and on the clipboard.
C8_Witness ==
    /\ outputLink = DirectLinkPrefix \o SegId2
    /\ clipboard = outputLink

\* C9: with no generation suspended the button is not loading, and every
\* suspended generation completes and takes the loading class off.
C9_LoadingIsCleared ==
    /\ [](Gens = << >> => ~loading)
    /\ \A k \in 1..MaxGens : InFlight(k) ~> (~InFlight(k) /\ ~loading)

\* C9 witness: a generation has completed with the invalid-format error and
\* the button is no longer loading.
C9_Witness ==
    /\ Gens = << >>
    /\ ~loading
    /\ statusText = MsgInvalid

\* C10: a copy of a non-empty output whose clipboard write fails, by throwing
\* or by returning false, shows the failure error; the copied message is shown
\* only when the write succeeded; the output is unchanged.
C10_FailedCopyShowsError ==
    [][ \A outcome \in CopyOutcomes :
          (CopyWith(outcome) /\ outputLink # << >>)
            => /\ outputLink' = outputLink
               /\ outcome # "true"
                    => statusText' = MsgCopyFailed /\ statusType' = "error"
               /\ outcome = "true"
                    => statusText' = MsgCopied /\ statusType' = "success" ]_vars

\* C11: a copy with an empty output shows the no-link message with severity
\* info, writes nothing to the clipboard and leaves the output, the loading
\* class and the suspended generations as they were.
C11_EmptyCopyOnlyShowsInfo ==
    [][ \A outcome \in CopyOutcomes :
          (CopyWith(outcome) /\ outputLink = << >>)
            => /\ statusText' = MsgNoLink
               /\ statusType' = "info"
               /\ clipboard' = clipboard
               /\ outputLink' = << >>
               /\ loading' = loading
               /\ Gens' = Gens ]_vars

\* C11 witness: the no-link message is shown while a generation is still
\* suspended and the button is loading; the clipboard was never written.
C11_Witness ==
    /\ statusText = MsgNoLink
    /\ statusType = "info"
    /\ outputLink = << >>
    /\ clipboard = Foreign
    /\ Gens # << >>
    /\ loading

\* C12: a toggle stores "dark" when checked and "light" when unchecked;
\* applying the saved preference yields the dark theme and a checked toggle
\* for "dark" and the light theme and an unchecked toggle for anything else;
\* so on a loaded page the dark theme, the checked toggle and a stored "dark"
\* go together.
C12_ThemeRoundTrips ==
    /\ [][ ThemeToggle
             => storedTheme' = IF themeChecked' THEN "dark" ELSE "light" ]_vars
    /\ [][ PageLoad
             => /\ darkTheme' = (storedTheme = "dark")
                /\ themeChecked' = (storedTheme = "dark") ]_vars
    /\ [](loaded => /\ darkTheme = themeChecked
                    /\ darkTheme = (storedTheme = "dark"))

\* C12 witness: a page loaded afresh (no status shown yet, a link of an
\* earlier visit on the clipboard) is dark and checked from a "dark" that only
\* the toggle can have stored.
C12_Witness ==
    /\ loaded
    /\ storedTheme = "dark"
    /\ darkTheme
    /\ themeChecked
    /\ statusDisplay = ""
    /\ clipboard # Foreign

\* the steps that call displayStatusMessage or trigger a generation
StatusCall ==
    \/ GenerateClick
    \/ GenComplete
    \/ copyToClipboard

\* the status message is hidden and empty
StatusCleared ==
    /\ statusText = ""
    /\ statusType = NoType
    /\ ~statusShow

\* C13: when from some point on no step calls displayStatusMessage or
\* triggers a generation, then under fair timers the message is eventually
\* hidden, its text and its severity tag are cleared, and they stay so.
C13_StatusIsTransient ==
    <>[][~StatusCall]_vars => <>[]StatusCleared

\* C13 witness: a link was generated and copied, both messages were shown,
\* and the page is at rest with the message hidden and cleared.
C13_Witness ==
    /\ outputLink # << >>
    /\ clipboard = outputLink
    /\ StatusCleared
    /\ statusDisplay = "none"
    /\ timers = << >>

\* what the link generator and the status manager show and keep pending
GeneratorVars == << outputLink, statusVars, timers, loading, copyEnabled >>

\* C14: on a loaded page, a step that changes the output, the status
\* message, the pending timers, the loading class, the copy button or the
\* clipboard (a generate trigger, a generation completion, a copy, a status
\* timer) leaves the theme, the toggle and the stored theme as they are, and
\* a step that changes one of these three (a theme toggle) leaves the output,
\* the status message, the pending timers, the loading class and the copy
\* button as they are.
C14_ThemeIsIndependent ==
    [][ loaded =>
          /\ (GeneratorVars' # GeneratorVars \/ clipboard' # clipboard)
                => UNCHANGED themeVars
          /\ themeVars' # themeVars => UNCHANGED GeneratorVars ]_vars

\* C14 witness: the dark theme was chosen on a page where a generation is
\* suspended and a message is on display.
C14_Witness ==
    /\ darkTheme
    /\ themeChecked
    /\ storedTheme = "dark"
    /\ Gens # << >>
    /\ loading
    /\ DismissPending
    /\ statusShow

\* C15: a generation is suspended with the trimmed text the field holds at
\* its trigger; an edit of the field changes neither the suspended
\* generations nor the output or the status; and a completing generation
\* writes the status, and on a match the output, of the text it was
\* suspended with, whatever the field holds by then.
C15_InputCapturedAtTrigger ==
    [][ /\ Len(Gens') > Len(Gens)
              => /\ SubSeq(Gens', 1, Len(Gens)) = Gens
                 /\ Gens'[Len(Gens')].input = Trim(driveLink)
        /\ driveLink' # driveLink
              => /\ Gens' = Gens
                 /\ outputLink' = outputLink
                 /\ statusText' = statusText
        /\ Completes
              => LET input == Head(timers).input
                 IN  /\ statusText' = AloneStatus(input)
                     /\ outputLink' = IF StringMatch(input).matched
                                      THEN AloneOutput(input)
                                      ELSE outputLink ]_vars

\* C15 witness: a generation of a share link has completed with its own
\* link and message after the field was edited into a foreign link and a
\* second generation was triggered on it, which is still suspended.
C15_Witness ==
    /\ driveLink = ExampleLink
    /\ outputLink = DirectLinkPrefix \o SegId1
    /\ statusText = MsgGenerated
    /\ Len(Gens) = 1
    /\ Gens[1].input = ExampleLink

\* C16: whenever a generation is suspended at its delay, the generate button
\* carries the loading class.
C16_SuspendedImpliesLoading == Gens # << >> => loading

\* C17: when the status text is one of the two success messages, the output
\* value is not empty.
C17_SuccessNeedsOutput ==
    statusText \in { MsgGenerated, MsgCopied } => outputLink # << >>

\* C17 witness: the copied message is shown for a generated link while
\* another generation is suspended.
C17_Witness ==
    /\ statusText = MsgCopied
    /\ statusType = "success"
    /\ outputLink # << >>
    /\ Gens # << >>

====
